---- MODULE Spec2Model ----
(***************************************************************************)
(* A model of the sparse Merkle proof store `Oof` (src/src/lib.rs) and of   *)
(* its hash helpers (src/src/hash.rs).                                      *)
(*                                                                          *)
(* A store is a map from generalized indices (K = u128) to 32-byte values   *)
(* (V = [u8; 32]).  A supplied value is modelled as <<n>>, n the number its *)
(* 32 bytes spell in little-endian order; SHA-256 is modelled as a          *)
(* collision-free constructor: hash(l, r) is the pair <<l, r>>, so two      *)
(* digests are equal exactly when they were computed from equal inputs, and *)
(* a digest never equals a supplied value.                                  *)
(***************************************************************************)
EXTENDS Integers, Sequences, FiniteSets, TLC

VARIABLES
    map,     \* Oof.map : BTreeMap<K, V>, a function from the present keys
    height,  \* Oof.height
    blob,    \* the bytes handed to from_blob (<<>> when the store was built by new)
    res,     \* what the last call returned
    hist     \* the calls made so far: [op, key, val, pre, res], pre = map before the call

vars == <<map, height, blob, res, hist>>

----------------------------------------------------------------------------
(* Bounds of the model *)

\* the largest index a constructed store may hold
MaxIndex == 11
\* how many calls a run makes
MaxCalls == 3
\* up to this many keys, a constructed store takes any values from Values
MaxValued == 3
\* the most entries of a store handed to the producer's calls
MaxGenKeys == 4
\* anchors tried by to_subtree are 1..MaxAnchor
MaxAnchor == 3
\* the largest count a blob declares
MaxCount == 3

(* Program constants *)

\* size_of::<K>() for K = u128
KeyBytes == 16
\* the length of V = [u8; 32]
ValueBytes == 32
\* the length of the u32 count prefix of a blob
CountBytes == 4
\* Oof.height of the modelled stores (tests::fill_and_minimize uses 3)
TreeHeight == 3

----------------------------------------------------------------------------
(* Values and results *)

\* tests::build_value: 32 bytes, the first is n and the rest are 0
BuildValue(n) == <<n>>

\* hash::hash: SHA-256 of left ++ right, as a collision-free constructor
hash(left, right) == <<left, right>>

RECURSIVE zero_hash(_, _)
\* hash::zero_hash
zero_hash(default, depth) ==
    IF depth = 0
    THEN default
    ELSE LET h == zero_hash(default, depth - 1) IN hash(h, h)

Ok(v) == <<"Ok", v>>
Err(k) == <<"Err", k>>
EntryNotFound(k) == Err(k)
Panic == <<"Panic">>
Unit == <<"Unit">>
NoCall == <<"NoCall">>
Some(v) == <<"Some", v>>
None == <<"None">>

IsOk(r) == r[1] = "Ok"
IsErr(r) == r[1] = "Err"
IsPanic(r) == r[1] = "Panic"

----------------------------------------------------------------------------
(* Index algebra (the bonsai crate) *)

RECURSIVE log2(_)
\* floor(log2(i)) for i >= 1: the depth of index i
log2(i) == IF i <= 1 THEN 0 ELSE 1 + log2(i \div 2)

RECURSIVE pow2(_)
pow2(n) == IF n = 0 THEN 1 ELSE 2 * pow2(n - 1)

\* bonsai::expand: (left, right, parent) of the sibling pair of i
expand(i) ==
    LET parent == i \div 2
    IN [left |-> 2 * parent, right |-> 2 * parent + 1, parent |-> parent]

\* bonsai::children
children(i) == [left |-> 2 * i, right |-> 2 * i + 1]

\* bonsai::relative_depth(i, leaf_count)
relative_depth(i, leaf_count) == log2(leaf_count) - log2(i)

\* bonsai::subtree_index_to_general: the node reached from `root` by the
\* path that leads from 1 to `index`
subtree_index_to_general(root, index) ==
    LET d == pow2(log2(index))
    IN root * d + (index - d)

----------------------------------------------------------------------------
(* The map *)

EmptyMap == <<>>

contains_key(m, k) == k \in DOMAIN m

\* BTreeMap::insert
insert(m, k, v) == [x \in DOMAIN m \cup {k} |-> IF x = k THEN v ELSE m[x]]

\* BTreeMap::remove
remove(m, k) == [x \in DOMAIN m \ {k} |-> m[x]]

\* Entry::or_insert
or_insert(m, k, v) == IF k \in DOMAIN m THEN m ELSE insert(m, k, v)

Max(S) == CHOOSE x \in S : \A y \in S : y <= x
Min(S) == CHOOSE x \in S : \A y \in S : x <= y

RECURSIVE Descending(_)
Descending(S) ==
    IF S = {} THEN <<>> ELSE <<Max(S)>> \o Descending(S \ {Max(S)})

RECURSIVE Ascending(_)
Ascending(S) ==
    IF S = {} THEN <<>> ELSE <<Min(S)>> \o Ascending(S \ {Min(S)})

RECURSIVE new_loop(_, _, _, _)
new_loop(m, ks, vs, i) ==
    IF i > Len(ks) THEN m ELSE new_loop(insert(m, ks[i], vs[i]), ks, vs, i + 1)

\* Oof::new: the map built by inserting keys[i] -> values[i] in order
new(ks, vs) == new_loop(EmptyMap, ks, vs, 1)

\* Oof::get
get(m, key) == IF key \in DOMAIN m THEN Some(m[key]) ELSE None

\* Oof::set: the map after the call (the returned previous value is get(m, key))
set(m, key, value) == insert(m, key, value)

\* Oof::keys: the present keys, largest first
keys(m) == Descending(DOMAIN m)

----------------------------------------------------------------------------
(* root and refresh *)

\* what refresh returns with, and the work-list and position it stopped at
Stop(m, r, nodes, position) ==
    [map |-> m, res |-> r, nodes |-> nodes, position |-> position]

RECURSIVE refresh_loop(_, _, _)
\* the while loop of Oof::refresh; position is 1-based here
refresh_loop(m, nodes, position) ==
    IF position > Len(nodes)
    THEN Stop(m, Panic, nodes, position)     \* nodes[position] is out of bounds
    ELSE IF ~(nodes[position] > 1)
    THEN Stop(m, Unit, nodes, position)
    ELSE LET e == expand(nodes[position])
             l == get(m, e.left)
             r == get(m, e.right)
             p == get(m, e.parent)
         IN IF l # None /\ r # None /\ p = None
            THEN refresh_loop(set(m, e.parent, hash(l[2], r[2])),
                              Append(nodes, e.parent), position + 1)
            ELSE IF l # None /\ r # None
            THEN refresh_loop(m, nodes, position + 1)
            ELSE IF l = None
            THEN Stop(m, EntryNotFound(e.left), nodes, position)
            ELSE Stop(m, EntryNotFound(e.right), nodes, position)

RECURSIVE refresh_loop_overwriting(_, _, _)
\* the loop of refresh recomputing a parent that is already stored
refresh_loop_overwriting(m, nodes, position) ==
    IF position > Len(nodes)
    THEN Stop(m, Panic, nodes, position)
    ELSE IF ~(nodes[position] > 1)
    THEN Stop(m, Unit, nodes, position)
    ELSE LET e == expand(nodes[position])
             l == get(m, e.left)
             r == get(m, e.right)
             p == get(m, e.parent)
         IN IF l # None /\ r # None
            THEN refresh_loop_overwriting(
                     set(m, e.parent, hash(l[2], r[2])),
                     IF p = None THEN Append(nodes, e.parent) ELSE nodes,
                     position + 1)
            ELSE IF l = None
            THEN Stop(m, EntryNotFound(e.left), nodes, position)
            ELSE Stop(m, EntryNotFound(e.right), nodes, position)

refresh_overwriting(m) == refresh_loop_overwriting(m, keys(m), 1)

\* Oof::refresh
refresh(m) == refresh_loop(m, keys(m), 1)

\* root looking up index 1 without recomputing
root_without_refresh(m) ==
    IF get(m, 1) = None
    THEN [map |-> m, res |-> EntryNotFound(1)]
    ELSE [map |-> m, res |-> Ok(m[1])]

\* Oof::root: [map, res]
root(m) ==
    LET r == refresh(m)
    IN IF r.res # Unit
       THEN [map |-> r.map, res |-> r.res]
       ELSE IF get(r.map, 1) = None
       THEN [map |-> r.map, res |-> EntryNotFound(1)]
       ELSE [map |-> r.map, res |-> Ok(r.map[1])]

----------------------------------------------------------------------------
(* The states a constructor produces *)

\* values a caller supplies besides the tests' build_value(key)
Values == {BuildValue(1), BuildValue(2)}

\* the value set() writes: different from every value of a constructed store
NewValue == BuildValue(0)

\* the values handed to new() for the key set K: build_value(key) as in the
\* tests, or, for at most MaxValued keys, any choice from Values
ValueChoices(K) ==
    {[k \in K |-> BuildValue(k)]}
        \cup (IF Cardinality(K) <= MaxValued THEN [K -> Values] ELSE {})

\* Oof::new(keys, values, height) for the unique keys K with values f
NewStore(K, f) ==
    LET ks == Ascending(K)
    IN new(ks, [i \in 1..Len(ks) |-> f[ks[i]]])

Panicked == IsPanic(res)

Call(op, key, val, pre, r) ==
    [op |-> op, key |-> key, val |-> val, pre |-> pre, res |-> r]

Record(op, key, val, r) ==
    /\ res' = r
    /\ hist' = Append(hist, Call(op, key, val, map, r))

CanCall == ~Panicked /\ Len(hist) < MaxCalls

Wrote == \E i \in 1..Len(hist) : hist[i].op = "set"

Init ==
    /\ \E K \in SUBSET (1..MaxIndex) : \E f \in ValueChoices(K) :
           map = NewStore(K, f)
    /\ height = TreeHeight
    /\ blob = <<>>
    /\ res = NoCall
    /\ hist = <<>>

----------------------------------------------------------------------------
(* The calls of the verifier: set and root *)

\* a single point write per run, overwriting an entry of the store
Set ==
    /\ CanCall
    /\ ~Wrote
    /\ \E key \in DOMAIN map :
           /\ map' = set(map, key, NewValue)
           /\ Record("set", key, NewValue, get(map, key))
    /\ UNCHANGED <<height, blob>>

Root ==
    /\ CanCall
    /\ LET r == root(map)
       IN /\ map' = r.map
          /\ Record("root", 0, <<>>, r.res)
    /\ UNCHANGED <<height, blob>>

Next == Set \/ Root

Spec == Init /\ [][Next]_vars

----------------------------------------------------------------------------
(* The producer's calls: fill_with_default, into_branch, to_subtree *)

RECURSIVE fill_loop(_, _, _, _, _)
\* the while loop of Oof::fill_with_default; position is 1-based here
fill_loop(m, h, default, nodes, position) ==
    IF position > Len(nodes)
    THEN [map |-> m, res |-> Panic]          \* nodes[position] is out of bounds
    ELSE IF ~(nodes[position] > 1)
    THEN [map |-> m, res |-> Unit]
    ELSE LET e == expand(nodes[position])
         IN IF ~contains_key(m, e.parent)
            THEN LET m1 == or_insert(m, e.left,
                               zero_hash(default, relative_depth(e.left, pow2(h))))
                     left == m1[e.left]
                     m2 == or_insert(m1, e.right,
                               zero_hash(default, relative_depth(e.right, pow2(h))))
                     right == m2[e.right]
                 IN fill_loop(set(m2, e.parent, hash(left, right)), h, default,
                              Append(nodes, e.parent), position + 1)
            ELSE fill_loop(m, h, default, nodes, position + 1)

RECURSIVE fill_loop_set_parent(_, _, _, _, _)
\* fill_with_default computing and storing the parent whether or not it is
\* present
fill_loop_set_parent(m, h, default, nodes, position) ==
    IF position > Len(nodes)
    THEN [map |-> m, res |-> Panic]
    ELSE IF ~(nodes[position] > 1)
    THEN [map |-> m, res |-> Unit]
    ELSE LET e == expand(nodes[position])
             m1 == or_insert(m, e.left,
                       zero_hash(default, relative_depth(e.left, pow2(h))))
             m2 == or_insert(m1, e.right,
                       zero_hash(default, relative_depth(e.right, pow2(h))))
         IN fill_loop_set_parent(
                set(m2, e.parent, hash(m2[e.left], m2[e.right])), h, default,
                IF contains_key(m, e.parent) THEN nodes ELSE Append(nodes, e.parent),
                position + 1)

fill_overwriting_parent(m, h, default) ==
    fill_loop_set_parent(m, h, default, keys(m), 1)

\* Oof::fill_with_default: [map, res]
fill_with_default(m, h, default) == fill_loop(m, h, default, keys(m), 1)

RECURSIVE branch_loop(_, _, _)
\* the for loop of Oof::into_branch over the keys taken before the loop
branch_loop(m, ks, i) ==
    IF i > Len(ks)
    THEN m
    ELSE LET c == children(ks[i])
         IN IF contains_key(m, c.left) \/ contains_key(m, c.right)
            THEN branch_loop(remove(m, ks[i]), ks, i + 1)
            ELSE branch_loop(m, ks, i + 1)

RECURSIVE branch_loop_both(_, _, _)
\* into_branch removing a key only when both of its children are present
branch_loop_both(m, ks, i) ==
    IF i > Len(ks)
    THEN m
    ELSE LET c == children(ks[i])
         IN IF contains_key(m, c.left) /\ contains_key(m, c.right)
            THEN branch_loop_both(remove(m, ks[i]), ks, i + 1)
            ELSE branch_loop_both(m, ks, i + 1)

into_branch_both(m) == branch_loop_both(m, keys(m), 1)

RECURSIVE branch_loop_left(_, _, _)
\* into_branch looking at the left child only
branch_loop_left(m, ks, i) ==
    IF i > Len(ks)
    THEN m
    ELSE LET c == children(ks[i])
         IN IF contains_key(m, c.left)
            THEN branch_loop_left(remove(m, ks[i]), ks, i + 1)
            ELSE branch_loop_left(m, ks, i + 1)

into_branch_left_only(m) == branch_loop_left(m, keys(m), 1)

\* into_branch deciding every removal on the store as it was handed in
into_branch_snapshot(m) ==
    [k \in {j \in DOMAIN m : ~(contains_key(m, children(j).left)
                                 \/ contains_key(m, children(j).right))}
        |-> m[k]]

\* into_branch examining the keys smallest first
into_branch_ascending(m) == branch_loop(m, Ascending(DOMAIN m), 1)

\* Oof::into_branch: the map of the returned store
into_branch(m) == branch_loop(m, keys(m), 1)

RECURSIVE subtree_loop(_, _, _, _)
\* the for loop of Oof::to_subtree over the keys taken before the loop
subtree_loop(m, anchor, ks, i) ==
    IF i > Len(ks)
    THEN [map |-> m, res |-> Unit]
    ELSE IF ~contains_key(m, ks[i])
    THEN [map |-> m, res |-> Panic]          \* unwrap() of None
    ELSE LET value == m[ks[i]]
         IN subtree_loop(set(remove(m, ks[i]),
                             subtree_index_to_general(anchor, ks[i]), value),
                         anchor, ks, i + 1)

\* to_subtree walking the keys smallest first
to_subtree_ascending(m, anchor) ==
    subtree_loop(m, anchor, Ascending(DOMAIN m), 1)

\* to_subtree writing the images without removing the keys they come from
to_subtree_copying(m, anchor) ==
    LET image(k) == subtree_index_to_general(anchor, k)
        images == {image(k) : k \in DOMAIN m}
    IN [map |-> [x \in DOMAIN m \cup images |->
                    IF x \in images
                    THEN m[CHOOSE k \in DOMAIN m : image(k) = x]
                    ELSE m[x]],
        res |-> Unit]

\* Oof::to_subtree: [map, res]
to_subtree(m, anchor) == subtree_loop(m, anchor, keys(m), 1)

\* the default leaf handed to fill_with_default (tests::fill_and_minimize: [0u8; 32])
DefaultLeaf == BuildValue(0)

\* every key lies in the tree of the store's height, so that relative_depth
\* of a sibling does not underflow
InTree(m, h) == \A k \in DOMAIN m : k < pow2(h + 1)

FillWithDefault ==
    /\ CanCall
    /\ InTree(map, height)
    /\ LET r == fill_with_default(map, height, DefaultLeaf)
       IN /\ map' = r.map
          /\ Record("fill_with_default", 0, DefaultLeaf, r.res)
    /\ UNCHANGED <<height, blob>>

IntoBranch ==
    /\ CanCall
    /\ map' = into_branch(map)
    /\ Record("into_branch", 0, <<>>, Unit)
    /\ UNCHANGED <<height, blob>>

Moved == \E i \in 1..Len(hist) : hist[i].op = "to_subtree"

\* a single re-anchoring per run
ToSubtree ==
    /\ CanCall
    /\ ~Moved
    /\ \E anchor \in 1..MaxAnchor :
           LET r == to_subtree(map, anchor)
           IN /\ map' = r.map
              /\ Record("to_subtree", anchor, <<>>, r.res)
    /\ UNCHANGED <<height, blob>>

\* the producer starts from a store built from the tests' values
InitGen ==
    /\ \E K \in SUBSET (1..MaxIndex) :
           /\ Cardinality(K) <= MaxGenKeys
           /\ map = NewStore(K, [k \in K |-> BuildValue(k)])
    /\ height = TreeHeight
    /\ blob = <<>>
    /\ res = NoCall
    /\ hist = <<>>

NextGen == FillWithDefault \/ IntoBranch \/ ToSubtree

SpecGen == InitGen /\ [][NextGen]_vars

\* a producer fills and minimizes a store and a verifier asks for its root
NextProof == FillWithDefault \/ IntoBranch \/ Root

SpecProof == InitGen /\ [][NextProof]_vars

----------------------------------------------------------------------------
(* The owning decoder: from_blob *)

RECURSIVE FromLE(_)
\* from_le_bytes: the number a byte sequence spells, least significant first
FromLE(bytes) ==
    IF bytes = <<>> THEN 0 ELSE bytes[1] + 256 * FromLE(Tail(bytes))

RECURSIVE ToLE(_, _)
\* to_le_bytes / transmute on a little-endian target: n in `width` bytes
ToLE(n, width) ==
    IF width = 0 THEN <<>> ELSE <<n % 256>> \o ToLE(n \div 256, width - 1)

RECURSIVE Flatten(_)
Flatten(ss) == IF ss = <<>> THEN <<>> ELSE Head(ss) \o Flatten(Tail(ss))

\* the buffer tests::from_blob assembles: count, then the keys, then the values
MakeBlob(ks, vs) ==
    ToLE(Len(ks), CountBytes)
        \o Flatten([i \in 1..Len(ks) |-> ToLE(ks[i], KeyBytes)])
        \o Flatten([i \in 1..Len(vs) |-> ToLE(vs[i][1], ValueBytes)])

RECURSIVE Sorted(_)
\* a list with its smallest element moved to the front, recursively
Sorted(ks) ==
    IF ks = <<>>
    THEN <<>>
    ELSE LET lo == CHOOSE i \in 1..Len(ks) : \A j \in 1..Len(ks) : ks[i] <= ks[j]
         IN <<ks[lo]>> \o Sorted(SubSeq(ks, 1, lo - 1) \o SubSeq(ks, lo + 1, Len(ks)))

\* from_blob taking the keys for sorted: it orders them and leaves the values
\* where they are
from_blob_keys_sorted(data) ==
    LET count == FromLE(SubSeq(data, 1, CountBytes))
        ks == [i \in 1..count |->
                  FromLE(SubSeq(data, CountBytes + KeyBytes * (i - 1) + 1,
                                CountBytes + KeyBytes * i))]
        off == CountBytes + count * KeyBytes
        vs == [i \in 1..count |->
                  <<FromLE(SubSeq(data, off + ValueBytes * (i - 1) + 1,
                                  off + ValueBytes * i))>>]
    IN new(Sorted(ks), vs)

\* from_blob building the slices one pair short
from_blob_one_short(data) ==
    LET count == FromLE(SubSeq(data, 1, CountBytes))
        ks == [i \in 1..(count - 1) |->
                  FromLE(SubSeq(data, CountBytes + KeyBytes * (i - 1) + 1,
                                CountBytes + KeyBytes * i))]
        off == CountBytes + count * KeyBytes
        vs == [i \in 1..(count - 1) |->
                  <<FromLE(SubSeq(data, off + ValueBytes * (i - 1) + 1,
                                  off + ValueBytes * i))>>]
    IN new(ks, vs)

\* Oof::from_blob: the map of the decoded store
from_blob(data) ==
    LET count == FromLE(SubSeq(data, 1, CountBytes))
        ks == [i \in 1..count |->
                  FromLE(SubSeq(data, CountBytes + KeyBytes * (i - 1) + 1,
                                CountBytes + KeyBytes * i))]
        off == CountBytes + count * KeyBytes
        vs == [i \in 1..count |->
                  <<FromLE(SubSeq(data, off + ValueBytes * (i - 1) + 1,
                                  off + ValueBytes * i))>>]
    IN new(ks, vs)

\* the keys a blob lists, in any order and with repetitions
BlobKeys == 1..(MaxCount + 1)

\* the key and value lists of the blobs handed to from_blob
BlobInputs ==
    UNION {[1..n -> BlobKeys] \X [1..n -> Values] : n \in 0..MaxCount}

\* a caller has assembled a well-formed blob from the lists in.val; no store
\* exists yet
InitBlob ==
    /\ \E in \in BlobInputs :
           /\ blob = MakeBlob(in[1], in[2])
           /\ hist = <<Call("assemble", Len(in[1]), in, EmptyMap, NoCall)>>
    /\ map = EmptyMap
    /\ height = TreeHeight
    /\ res = NoCall

FromBlob ==
    /\ Len(hist) = 1 /\ hist[1].op \in {"assemble", "to_bytes"}
    /\ map' = from_blob(blob)
    /\ Record("from_blob", 0, <<>>, Unit)
    /\ UNCHANGED <<height, blob>>

NextBlob == FromBlob

SpecBlob == InitBlob /\ [][NextBlob]_vars

\* to_bytes of the owning mode: count, then all keys in ascending order, then
\* all values in the same order
to_bytes(m) ==
    LET ks == Ascending(DOMAIN m)
    IN ToLE(Len(ks), CountBytes)
           \o Flatten([i \in 1..Len(ks) |-> ToLE(ks[i], KeyBytes)])
           \o Flatten([i \in 1..Len(ks) |-> ToLE(m[ks[i]][1], ValueBytes)])

\* a store of at most MaxCount supplied values, not yet encoded
InitCodec ==
    /\ \E K \in SUBSET (1..MaxIndex) : \E f \in ValueChoices(K) :
           /\ Cardinality(K) <= MaxCount
           /\ map = NewStore(K, f)
    /\ height = TreeHeight
    /\ blob = <<>>
    /\ res = NoCall
    /\ hist = <<>>

ToBytes ==
    /\ hist = <<>>
    /\ blob' = to_bytes(map)
    /\ Record("to_bytes", 0, <<>>, Unit)
    /\ UNCHANGED <<map, height>>

NextCodec == ToBytes \/ FromBlob

SpecCodec == InitCodec /\ [][NextCodec]_vars

----------------------------------------------------------------------------
(* Reference notions the claims are stated with *)

\* the digest the claims call compress(left, right)
compress(left, right) == <<left, right>>

\* the last call made
Last == hist[Len(hist)]

Called(op) == Len(hist) > 0 /\ Last.op = op

\* no key of S is a proper ancestor of another key of S
RECURSIVE HasAncestorIn(_, _)
HasAncestorIn(k, S) ==
    k > 1 /\ ((k \div 2) \in S \/ HasAncestorIn(k \div 2, S))

Antichain(S) == \A k \in S : ~HasAncestorIn(k, S)

\* index i is derivable from the keys S: present, or both children derivable
RECURSIVE Derivable(_, _)
Derivable(S, i) ==
    \/ i \in S
    \/ /\ S # {}
       /\ 2 * i + 1 <= Max(S)
       /\ Derivable(S, 2 * i)
       /\ Derivable(S, 2 * i + 1)

\* the reference value of a derivable index
RECURSIVE Ref(_, _)
Ref(m, i) ==
    IF i \in DOMAIN m THEN m[i] ELSE compress(Ref(m, 2 * i), Ref(m, 2 * i + 1))

----------------------------------------------------------------------------
(* The claims about root and set, under Spec *)

\* C1: root() on a non-empty store in which no entry is an ancestor of another
\* and from which index 1 is derivable returns Ok(ref(1)), whatever the depths
\* of the entries.
C1_RootOfDerivableStore ==
    (/\ Called("root")
     /\ Last.pre # EmptyMap
     /\ Antichain(DOMAIN Last.pre)
     /\ Derivable(DOMAIN Last.pre, 1))
        => res = Ok(Ref(Last.pre, 1))

\* C2: when root() has succeeded on a store built from leaves and a leaf is then
\* overwritten with a different value, the next successful root() returns the
\* root recomputed from the new leaf value.
C2_NoStaleRoot ==
    (/\ Len(hist) = 3
     /\ hist[1].op = "root" /\ IsOk(hist[1].res)
     /\ Antichain(DOMAIN hist[1].pre)
     /\ hist[2].op = "set"
     /\ hist[2].key \in DOMAIN hist[1].pre
     /\ hist[2].val # hist[1].pre[hist[2].key]
     /\ hist[3].op = "root" /\ IsOk(hist[3].res))
        => hist[3].res = Ok(Ref(set(hist[1].pre, hist[2].key, hist[2].val), 1))

\* C3: two root() calls with no set in between return the identical result, and
\* the second call leaves the key set as the first call left it.
C3_RootIdempotent ==
    (/\ Len(hist) >= 2
     /\ hist[Len(hist) - 1].op = "root"
     /\ Last.op = "root")
        => /\ Last.res = hist[Len(hist) - 1].res
           /\ DOMAIN map = DOMAIN Last.pre

\* C4: on a store obtained by removing one entry m from a store with no entry
\* an ancestor of another and a derivable root, root() fails with
\* EntryNotFound(m).  (Stated for the stores that keep an entry; the store
\* left empty is C5's.)
C4_MissingEntryNamed ==
    (Called("root") /\ Last.pre # EmptyMap) =>
        \A m \in (1..MaxIndex) \ DOMAIN Last.pre :
            (/\ Antichain(DOMAIN Last.pre \cup {m})
             /\ Derivable(DOMAIN Last.pre \cup {m}, 1))
                => res = EntryNotFound(m)

\* C5: root() on the empty store returns EntryNotFound(1); it does not panic.
C5_EmptyStore ==
    (Called("root") /\ Last.pre = EmptyMap) => res = EntryNotFound(1)

\* C6: on the store {2: v2, 6: v6, 7: v7}, root() returns
\* Ok(compress(v2, compress(v6, v7))) and leaves index 3 = compress(v6, v7) and
\* index 1 = that root in the store.
C6_RootOfTwoSixSeven ==
    (Called("root") /\ DOMAIN Last.pre = {2, 6, 7}) =>
        LET three == compress(Last.pre[6], Last.pre[7])
            one == compress(Last.pre[2], three)
        IN /\ res = Ok(one)
           /\ get(map, 3) = Some(three)
           /\ get(map, 1) = Some(one)
           /\ \A k \in {2, 6, 7} : get(map, k) = Some(Last.pre[k])

\* C6 witness: root() has returned Ok on {2, 6, 7} holding values other than the
\* tests' (equal digests at 6 and 7)
C6_Witness ==
    /\ Called("root")
    /\ DOMAIN Last.pre = {2, 6, 7}
    /\ Last.pre[2] = BuildValue(2)
    /\ Last.pre[6] = BuildValue(1)
    /\ Last.pre[7] = BuildValue(1)
    /\ IsOk(res)

----------------------------------------------------------------------------
(* The claim about from_blob, under SpecBlob *)

\* C7: decoding a blob that lists n keys and n positionally aligned values
\* gives get(k_i) = v_i for every listed pair whose key is listed once, and
\* get(k) = None for every key not listed, whatever the order of the keys.
C7_FromBlobLookup ==
    Called("from_blob") =>
        LET ks == hist[1].val[1]
            vs == hist[1].val[2]
            Once(i) == \A j \in 1..Len(ks) : ks[j] = ks[i] => j = i
        IN /\ \A i \in 1..Len(ks) : Once(i) => get(map, ks[i]) = Some(vs[i])
           /\ \A k \in 0..(MaxCount + 2) :
                  (\A i \in 1..Len(ks) : ks[i] # k) => get(map, k) = None

\* C7 witness: a blob listing three distinct keys out of order, with values
\* that differ, has been decoded
C7_Witness ==
    /\ Called("from_blob")
    /\ hist[1].val[1] = <<3, 1, 2>>
    /\ hist[1].val[2] = <<BuildValue(1), BuildValue(2), BuildValue(1)>>
    /\ Cardinality(DOMAIN map) = 3

----------------------------------------------------------------------------
(* The claims about the producer's calls, under SpecGen *)

\* into_branch has just been applied to the result of fill_with_default on a
\* store built from leaves only
FilledThenMinimized ==
    /\ Len(hist) = 2
    /\ hist[1].op = "fill_with_default"
    /\ hist[2].op = "into_branch"
    /\ Antichain(DOMAIN hist[1].pre)

\* C8 as stated: into_branch after fill_with_default on a store built from
\* leaves only yields exactly the original leaf set.
C8_FillMinimizeInverse ==
    FilledThenMinimized => map = hist[1].pre

\* C8 as amended: into_branch after fill_with_default on a store built from
\* leaves only keeps every original leaf with its value; the result is the
\* entries of the filled store none of whose children remains, so invented
\* default siblings and computed nodes can remain beside the leaves.
C8_FillMinimizeKeepsLeaves ==
    FilledThenMinimized =>
        LET orig == hist[1].pre
            filled == hist[2].pre
        IN /\ \A k \in DOMAIN orig : get(map, k) = Some(orig[k])
           /\ \A k \in DOMAIN map : get(filled, k) = Some(map[k])
           /\ \A k \in DOMAIN filled :
                  k \in DOMAIN map <=>
                      (2 * k \notin DOMAIN map /\ 2 * k + 1 \notin DOMAIN map)

\* C8 witness: the tests' case, leaves {14, 15} replaced by the deepest pair
\* the bounds hold: the default siblings 5 and 3 stay beside leaves {8, 9}
C8_Witness ==
    /\ FilledThenMinimized
    /\ DOMAIN hist[1].pre = {8, 9}
    /\ DOMAIN map = {3, 5, 8, 9}
    /\ map[5] = zero_hash(DefaultLeaf, 1)
    /\ map[3] = zero_hash(DefaultLeaf, 2)

\* the image of key k under the re-anchoring at `anchor`
Image(anchor, k) == anchor * pow2(log2(k)) + (k - pow2(log2(k)))

\* C9: to_subtree(anchor) moves every entry without loss or collision: every
\* (k, v) present before is found at the image of k, the number of entries is
\* unchanged, and no other key is present.
C9_ToSubtreeMovesAll ==
    Called("to_subtree") =>
        LET pre == Last.pre
            anchor == Last.key
        IN /\ res = Unit
           /\ \A k \in DOMAIN pre : get(map, Image(anchor, k)) = Some(pre[k])
           /\ Cardinality(DOMAIN map) = Cardinality(DOMAIN pre)
           /\ DOMAIN map = {Image(anchor, k) : k \in DOMAIN pre}

\* C9 witness: a store holding the anchor 2 and the key 1 whose image is 2 has
\* been re-anchored at 2
C9_Witness ==
    /\ Called("to_subtree")
    /\ Last.key = 2
    /\ {1, 2} \subseteq DOMAIN Last.pre
    /\ get(map, 2) = Some(Last.pre[1])
    /\ get(map, 4) = Some(Last.pre[2])

\* C10 as stated: after to_subtree(anchor) with anchor > 1 no key present
\* before the call resolves.
C10_OriginalKeysGone ==
    (Called("to_subtree") /\ Last.key > 1) =>
        \A k \in DOMAIN Last.pre : get(map, k) = None

\* C10 as amended: after to_subtree(anchor) with anchor > 1, a key present
\* before the call resolves only if it is the image of a key present before
\* the call, and then to that key's value; every other original key is gone.
C10_OriginalKeysGoneUnlessImage ==
    (Called("to_subtree") /\ Last.key > 1) =>
        \A k \in DOMAIN Last.pre :
            /\ (\A j \in DOMAIN Last.pre : Image(Last.key, j) # k)
                   => get(map, k) = None
            /\ \A j \in DOMAIN Last.pre :
                   Image(Last.key, j) = k => get(map, k) = Some(Last.pre[j])

\* C10 witness: the tests' keys {1, 2, 3} re-anchored at 3: 1 and 2 are gone
\* and 3, the image of 1, holds the value of 1
C10_Witness ==
    /\ Called("to_subtree")
    /\ Last.key = 3
    /\ DOMAIN Last.pre = {1, 2, 3}
    /\ get(map, 1) = None
    /\ get(map, 2) = None
    /\ get(map, 3) = Some(Last.pre[1])

----------------------------------------------------------------------------
(* Further claims about fill_with_default and into_branch, under SpecGen *)

\* C11: after fill_with_default on a non-empty store every ancestor of every
\* present index, up to index 1, is present, also when index 1 or another
\* internal node was present before the call.
C11_AncestorsPresent ==
    (Called("fill_with_default") /\ Last.pre # EmptyMap) =>
        /\ res = Unit
        /\ \A k \in DOMAIN map : k > 1 => (k \div 2) \in DOMAIN map

\* C12 as stated: into_branch deletes an entry only if both of its children
\* are present when it is examined (children are examined before their parent
\* and are not touched again, so that is their presence in the result).
C12_RemovedOnlyWithBothChildren ==
    Called("into_branch") =>
        \A k \in DOMAIN Last.pre \ DOMAIN map :
            2 * k \in DOMAIN map /\ 2 * k + 1 \in DOMAIN map

\* C12 as amended: into_branch deletes an entry exactly when at least one of
\* its children is present when it is examined; an entry is kept, with its
\* value, exactly when both children are absent then.
C12_RemovedWithAnyChild ==
    Called("into_branch") =>
        /\ \A k \in DOMAIN Last.pre :
               k \notin DOMAIN map <=>
                   (2 * k \in DOMAIN map \/ 2 * k + 1 \in DOMAIN map)
        /\ \A k \in DOMAIN map : get(Last.pre, k) = Some(map[k])

\* C12 witness: into_branch has removed index 3 with only its left child 6
\* remaining, and kept index 1 whose children were both removed
C12_Witness ==
    /\ Called("into_branch")
    /\ {1, 2, 3, 4, 6} \subseteq DOMAIN Last.pre
    /\ 7 \notin DOMAIN Last.pre
    /\ 3 \notin DOMAIN map
    /\ 2 \notin DOMAIN map
    /\ 1 \in DOMAIN map

\* C13: fill_with_default never overwrites an entry that was present before
\* the call: every (index, value) pair of the input store is present with the
\* same value afterwards; the call only adds entries.
C13_FillKeepsEntries ==
    Called("fill_with_default") =>
        /\ \A k \in DOMAIN Last.pre : get(map, k) = Some(Last.pre[k])
        /\ DOMAIN Last.pre \subseteq DOMAIN map

\* C13 witness: fill_with_default has run on a store holding index 2 and its
\* child 4 but not index 1: the pair under the present parent 2 was skipped,
\* 1 and 3 were added and 2 kept its value
C13_Witness ==
    /\ Called("fill_with_default")
    /\ DOMAIN Last.pre = {2, 4}
    /\ DOMAIN map = {1, 2, 3, 4}
    /\ map[2] = Last.pre[2]

(* The owning codec, under SpecCodec *)

\* C14: the owning codec round-trips: for every non-empty store with unique
\* keys, decoding the bytes to_bytes produced gives a store equal to the
\* original.
C14_CodecRoundTrip ==
    (Called("from_blob") /\ hist[1].op = "to_bytes" /\ hist[1].pre # EmptyMap) =>
        map = hist[1].pre

\* C14 witness: a store holding 2, 5 and 11, with a value at 5 that is not
\* build_value(5), was encoded and decoded
C14_Witness ==
    /\ Called("from_blob")
    /\ hist[1].op = "to_bytes"
    /\ DOMAIN hist[1].pre = {2, 5, 11}
    /\ hist[1].pre[5] = BuildValue(1)
    /\ Len(blob) = CountBytes + 3 * (KeyBytes + ValueBytes)

(* Further claims about root(), under Spec *)

\* C15: a node whose parent already has a stored value causes no failure: if
\* the parent of a present index is present, root() does not return
\* EntryNotFound for that index's sibling even when the sibling is absent; a
\* store holding exactly the indices 1 and 2 returns Ok with the stored value
\* of index 1.
C15_PresentParentNoFailure ==
    Called("root") =>
        /\ \A k \in DOMAIN Last.pre :
               (k > 1 /\ (k \div 2) \in DOMAIN Last.pre
                      /\ expand(k).left + expand(k).right - k \notin DOMAIN Last.pre)
                   => res # EntryNotFound(expand(k).left + expand(k).right - k)
        /\ DOMAIN Last.pre = {1, 2} => (IsOk(res) /\ res = Ok(Last.pre[1]))

(* Further claims about the producer operations, under SpecGen *)

\* C16: after fill_with_default on a store in which no entry is an ancestor
\* of another, every entry whose two children are both present equals
\* compress(left child value, right child value).
C16_FilledEntriesCompressChildren ==
    (Called("fill_with_default") /\ Antichain(DOMAIN Last.pre)) =>
        \A k \in DOMAIN map :
            (2 * k \in DOMAIN map /\ 2 * k + 1 \in DOMAIN map)
                => map[k] = compress(map[2 * k], map[2 * k + 1])

(* Producer and verifier together, under SpecProof *)

\* C17: minimizing preserves the root: for every non-empty set of leaves all
\* at depth equal to the store's height, with F the store after
\* fill_with_default, root() on into_branch(F) succeeds and returns the value
\* F holds at index 1.
C17_MinimizedRootIsFilledRoot ==
    (/\ Len(hist) = 3
     /\ hist[1].op = "fill_with_default"
     /\ hist[2].op = "into_branch"
     /\ hist[3].op = "root"
     /\ hist[1].pre # EmptyMap
     /\ \A k \in DOMAIN hist[1].pre : log2(k) = height) =>
        /\ 1 \in DOMAIN hist[2].pre
        /\ IsOk(res)
        /\ res = Ok(hist[2].pre[1])

\* C17 witness: the leaves 8 and 10 were filled and minimized to the entries
\* 2, 3, 8, 9, 10, 11 and root() succeeded on them
C17_Witness ==
    /\ Len(hist) = 3
    /\ hist[1].op = "fill_with_default"
    /\ hist[2].op = "into_branch"
    /\ hist[3].op = "root"
    /\ DOMAIN hist[1].pre = {8, 10}
    /\ DOMAIN hist[3].pre = {2, 3, 8, 9, 10, 11}
    /\ IsOk(res)

(* Frame and termination of root(), under Spec *)

\* C18: root() only ever adds derived entries: on every call, whether it
\* returns Ok or EntryNotFound, every (index, value) pair present before the
\* call is present with the same value afterwards, and every entry the call
\* inserts is at an index p that was absent, with the value
\* compress(value(2p), value(2p+1)).
C18_RootOnlyAddsDerived ==
    Called("root") =>
        /\ \A k \in DOMAIN Last.pre : get(map, k) = Some(Last.pre[k])
        /\ \A p \in DOMAIN map \ DOMAIN Last.pre :
               /\ 2 * p \in DOMAIN map
               /\ 2 * p + 1 \in DOMAIN map
               /\ map[p] = compress(map[2 * p], map[2 * p + 1])

\* C18 witness: root() failed with EntryNotFound after it had inserted a
\* derived entry beside an index 1 that was stored before the call
C18_Witness ==
    /\ Called("root")
    /\ IsErr(res)
    /\ 1 \in DOMAIN Last.pre
    /\ DOMAIN map \ DOMAIN Last.pre # {}

\* the proper ancestors of index k
Ancestors(k) == {k \div pow2(d) : d \in 1..log2(k)}

\* C19: root() terminates on every non-empty store: the work-list position
\* never runs past the end of the list, each processed index greater than 1
\* having left its parent in the list at a later position, so the call ends
\* with Ok or EntryNotFound, after processing at most the original keys and
\* their derived ancestors, each once.
C19_RootTerminates ==
    (Called("root") /\ Last.pre # EmptyMap) =>
        LET w == refresh(Last.pre)
            K == DOMAIN Last.pre
        IN /\ IsOk(res) \/ IsErr(res)
           /\ w.position <= Len(w.nodes)
           /\ \A i \in 1..(w.position - 1) :
                  \E j \in (i + 1)..Len(w.nodes) : w.nodes[j] = w.nodes[i] \div 2
           /\ \A i, j \in 1..Len(w.nodes) : w.nodes[i] = w.nodes[j] => i = j
           /\ \A i \in 1..Len(w.nodes) :
                  \/ i <= Cardinality(K) /\ w.nodes[i] \in K
                  \/ /\ i > Cardinality(K)
                     /\ w.nodes[i] \notin K
                     /\ \E k \in K : w.nodes[i] \in Ancestors(k)

(* The minimized store, under SpecGen *)

\* C20: after into_branch on any store, no remaining entry has a child
\* present in the map, and every entry that had no child present in the input
\* store is kept with its value unchanged.
C20_NoEntryAboveAnother ==
    Called("into_branch") =>
        /\ \A k \in DOMAIN map :
               2 * k \notin DOMAIN map /\ 2 * k + 1 \notin DOMAIN map
        /\ \A k \in DOMAIN Last.pre :
               (2 * k \notin DOMAIN Last.pre /\ 2 * k + 1 \notin DOMAIN Last.pre)
                   => get(map, k) = Some(Last.pre[k])

\* C20 witness: into_branch on the entries 1, 3 and 4 removed 1, whose right
\* child alone is present, and kept 3 and 4
C20_Witness ==
    /\ Called("into_branch")
    /\ DOMAIN Last.pre = {1, 3, 4}
    /\ DOMAIN map = {3, 4}

====
